---- MODULE Spec2Model ----
(***************************************************************************)
(* Model of the fixed-size thread pool of src/src/lib.rs: ThreadPool::new, *)
(* ThreadPool::execute, Drop for ThreadPool, and the worker loop spawned   *)
(* by Worker::new.                                                         *)
(*                                                                         *)
(* Threads: one caller thread (constructs the pool, submits jobs, drops    *)
(* the pool) and one thread per spawned worker.  The mpsc channel is a     *)
(* FIFO sequence; the Mutex around the receiver is the variable lock.      *)
(*                                                                         *)
(* Temporaries of the scrutinee of the `if let` at lib.rs:75-83 (the       *)
(* MutexGuard) live to the end of the `let job = ...;` statement, so the   *)
(* guard is held across the blocking recv() and released before job() is   *)
(* called, or on `break`.                                                  *)
(***************************************************************************)
EXTENDS Integers, Sequences, FiniteSets, TLC

\* ---- bounds of the model ----
MaxSize == 2
MaxTasks == 3

VARIABLES
  size,       \* the argument of ThreadPool::new
  pc,         \* position of the caller thread
  k,          \* loop index of the caller (spawn loop, send loop, join loop)
  chan,       \* TRUE once mpsc::channel() has been called
  queue,      \* messages in the channel, oldest first
  lock,       \* holder of the receiver Mutex, or NoOne
  workers,    \* ThreadPool.workers: sequence of [id, thread]
  wpc,        \* position of every worker thread
  cur,        \* the job a worker holds while it executes it (0: none)
  submitted,  \* number of calls of execute so far; job ids are 1..submitted
  panicky,    \* ids of the submitted jobs whose closure panics
  sent,       \* history: every message successfully sent, in order
  rcvd,       \* history: every message received, with the receiving worker
  completed,  \* history: jobs whose closure returned
  takes,      \* history: worker ids whose handle was taken by drop
  joins       \* history: [id, result] of every join that returned

vars == <<size, pc, k, chan, queue, lock, workers, wpc, cur, submitted,
          panicky, sent, rcvd, completed, takes, joins>>

WorkerIds == 0..MaxSize
NoOne == -1

\* enum Message (lib.rs:96-99)
NewJob(j) == [tag |-> "NewJob", job |-> j]
Terminate == [tag |-> "Terminate", job |-> 0]

\* assert!(size > 0) (lib.rs:21)
AssertOk_Mut(n) == n >= 0
AssertOk(n) == n > 0

\* `for id in 0..size` (lib.rs:28): is there another iteration at index id
RangeMore_Mut(id, n) == id <= n
RangeMore(id, n) == id < n

\* `for _ in &self.workers`, `for worker in &mut self.workers`
\* (lib.rs:51, 57): is there another iteration at index i
ForMore_Mut(i, ws) == i + 1 < Len(ws)
ForMore(i, ws) == i < Len(ws)

\* mpsc::Sender::send appends at the tail (lib.rs:43, 52)
Enqueue_Mut(q, m) == <<m>> \o q
Enqueue(q, m) == Append(q, m)

\* mpsc::Receiver::recv returns the head and removes it (lib.rs:76)
Front_Mut(q) == q[Len(q)]
Front(q) == Head(q)
Dequeue_Mut(q) == q
Dequeue(q) == Tail(q)

\* position of a worker thread after the Terminate branch: `break` leaves
\* the loop and the closure returns (lib.rs:79-83)
AfterTerminate_Mut == "lock"
AfterTerminate == "exited"

\* position of a worker thread after job() panicked: the panic unwinds the
\* closure and the thread ends (lib.rs:87, no catch_unwind around it)
AfterPanic_Mut == "lock"
AfterPanic == "dead"

\* holder of the Mutex after worker w received m: the guard is a temporary
\* of the `let job = if let ... ;` statement and is dropped at its end, or
\* at `break`, in both cases before job() is called (lib.rs:75-83)
GuardAfterRecv_KeepOnJob(w, m) == IF m.tag = "NewJob" THEN w ELSE NoOne
GuardAfterRecv_KeepOnExit(w, m) == IF m.tag = "NewJob" THEN NoOne ELSE w
GuardAfterRecv(w, m) == NoOne

\* position in the roster of element i (0-based) of the iteration
\* `for worker in &mut self.workers` (lib.rs:57): front to back
RosterIndex_Mut(ws, i) == Len(ws) - i
RosterIndex(ws, i) == i + 1

\* a worker thread that still runs its closure (owns its Arc of the receiver)
Alive(w) == wpc[w] \in {"lock", "recv", "exec"}

\* the thread has ended: normally (exited) or by unwinding a panic (dead)
ThreadEnded_Mut(w) == TRUE
ThreadEnded(w) == wpc[w] \in {"exited", "dead"}

\* The Receiver lives while some Arc of it lives: the local `receiver` of
\* ThreadPool::new (lib.rs:24, dropped at line 35) or the clone moved into
\* a worker closure (lib.rs:29, 74).  send() fails iff it is gone.
ReceiverAlive ==
  chan /\ (pc = "new_spawn" \/ \E w \in WorkerIds : Alive(w))

\* the caller can call execute: `&self` needs the pool to exist and not to
\* have been handed to drop (lib.rs:37)
CanSubmit_Mut == pc \in {"live", "drop_send"}
CanSubmit == pc = "live"

\* worker w is at receiver.lock() and the Mutex is free (lib.rs:76)
CanLock_Mut(w) == wpc[w] = "lock"
CanLock(w) == wpc[w] = "lock" /\ lock = NoOne

\* worker w is inside recv(), holding the guard (lib.rs:76); job() is called
\* synchronously, so a worker that executes a job is not receiving
CanRecv_Mut(w) == wpc[w] \in {"recv", "exec"}
CanRecv(w) == wpc[w] = "recv" /\ lock = w

Init ==
  /\ size \in 0..MaxSize
  /\ pc = "new_assert"
  /\ k = 0
  /\ chan = FALSE
  /\ queue = <<>>
  /\ lock = NoOne
  /\ workers = <<>>
  /\ wpc = [w \in WorkerIds |-> "unspawned"]
  /\ cur = [w \in WorkerIds |-> 0]
  /\ submitted = 0
  /\ panicky = {}
  /\ sent = <<>>
  /\ rcvd = <<>>
  /\ completed = {}
  /\ takes = <<>>
  /\ joins = <<>>

\* ---------------- ThreadPool::new (lib.rs:20-35) ----------------

\* lib.rs:21
New_Assert ==
  /\ pc = "new_assert"
  /\ pc' = IF AssertOk(size) THEN "new_channel" ELSE "panic_new"
  /\ UNCHANGED <<size, k, chan, queue, lock, workers, wpc, cur, submitted,
                 panicky, sent, rcvd, completed, takes, joins>>

\* lib.rs:23-26
New_Channel ==
  /\ pc = "new_channel"
  /\ chan' = TRUE
  /\ queue' = <<>>
  /\ workers' = <<>>
  /\ k' = 0
  /\ pc' = "new_spawn"
  /\ UNCHANGED <<size, lock, wpc, cur, submitted, panicky, sent, rcvd,
                 completed, takes, joins>>

\* lib.rs:28-32 with Worker::new (lib.rs:73-93): one iteration of the loop,
\* or the return of the pool (lib.rs:34) when the range is exhausted
New_Spawn ==
  /\ pc = "new_spawn"
  /\ IF RangeMore(k, size)
       THEN /\ wpc' = [wpc EXCEPT ![k] = "lock"]
            /\ workers' = Append(workers, [id |-> k, thread |-> "Some"])
            /\ k' = k + 1
            /\ pc' = pc
       ELSE /\ pc' = "live"
            /\ k' = 0
            /\ UNCHANGED <<wpc, workers>>
  /\ UNCHANGED <<size, chan, queue, lock, cur, submitted, panicky, sent,
                 rcvd, completed, takes, joins>>

\* ---------------- ThreadPool::execute (lib.rs:37-44) ----------------

\* One call of execute with a closure that panics (p) or returns.  send
\* never blocks (unbounded channel); it fails when the receiver is gone and
\* unwrap() then panics in the caller.
Execute ==
  /\ CanSubmit
  /\ submitted < MaxTasks
  /\ \E p \in BOOLEAN :
       /\ submitted' = submitted + 1
       /\ panicky' = IF p THEN panicky \cup {submitted + 1} ELSE panicky
       /\ IF ReceiverAlive
            THEN /\ queue' = Enqueue(queue, NewJob(submitted + 1))
                 /\ sent' = Append(sent, NewJob(submitted + 1))
                 /\ pc' = pc
            ELSE /\ pc' = "panic_execute"
                 /\ UNCHANGED <<queue, sent>>
  /\ UNCHANGED <<size, k, chan, lock, workers, wpc, cur, rcvd, completed,
                 takes, joins>>

\* ---------------- worker loop (lib.rs:74-88) ----------------

\* receiver.lock().unwrap() (lib.rs:76); the mutex is never poisoned
\* because no thread panics while it holds the guard
Lock(w) ==
  /\ CanLock(w)
  /\ lock' = w
  /\ wpc' = [wpc EXCEPT ![w] = "recv"]
  /\ UNCHANGED <<size, pc, k, chan, queue, workers, cur, submitted, panicky,
                 sent, rcvd, completed, takes, joins>>

\* .recv().unwrap() returns a message (blocks while the queue is empty),
\* the `if let` branches on it and the guard is dropped (lib.rs:75-85)
Recv(w) ==
  /\ CanRecv(w)
  /\ queue # <<>>
  /\ LET m == Front(queue) IN
       /\ queue' = Dequeue(queue)
       /\ rcvd' = Append(rcvd, [w |-> w, msg |-> m])
       /\ lock' = GuardAfterRecv(w, m)
       /\ IF m.tag = "NewJob"
            THEN /\ wpc' = [wpc EXCEPT ![w] = "exec"]
                 /\ cur' = [cur EXCEPT ![w] = m.job]
            ELSE /\ wpc' = [wpc EXCEPT ![w] = AfterTerminate]
                 /\ cur' = cur
  /\ UNCHANGED <<size, pc, k, chan, workers, submitted, panicky, sent,
                 completed, takes, joins>>

\* job() returns (lib.rs:87) and the loop starts over
JobReturns(w) ==
  /\ wpc[w] = "exec"
  /\ cur[w] \notin panicky
  /\ completed' = completed \cup {cur[w]}
  /\ cur' = [cur EXCEPT ![w] = 0]
  /\ wpc' = [wpc EXCEPT ![w] = "lock"]
  /\ UNCHANGED <<size, pc, k, chan, queue, lock, workers, submitted, panicky,
                 sent, rcvd, takes, joins>>

\* job() panics (lib.rs:87): the panic unwinds the closure, the thread ends
\* and its Arc of the receiver is dropped; no guard is held at this point
JobPanics(w) ==
  /\ wpc[w] = "exec"
  /\ cur[w] \in panicky
  /\ cur' = [cur EXCEPT ![w] = 0]
  /\ wpc' = [wpc EXCEPT ![w] = AfterPanic]
  /\ UNCHANGED <<size, pc, k, chan, queue, lock, workers, submitted, panicky,
                 sent, rcvd, completed, takes, joins>>

\* ---------------- Drop for ThreadPool (lib.rs:47-65) ----------------

\* the pool goes out of scope: drop is entered (lib.rs:48-49)
Drop_Begin ==
  /\ pc = "live"
  /\ pc' = "drop_send"
  /\ k' = 0
  /\ UNCHANGED <<size, chan, queue, lock, workers, wpc, cur, submitted,
                 panicky, sent, rcvd, completed, takes, joins>>

\* lib.rs:51-55: one iteration of the send loop, or its end
Drop_Send ==
  /\ pc = "drop_send"
  /\ IF ForMore(k, workers)
       THEN IF ReceiverAlive
              THEN /\ queue' = Enqueue(queue, Terminate)
                   /\ sent' = Append(sent, Terminate)
                   /\ k' = k + 1
                   /\ pc' = pc
              ELSE /\ pc' = "panic_drop_send"
                   /\ UNCHANGED <<queue, sent, k>>
       ELSE /\ pc' = "drop_take"
            /\ k' = 0
            /\ UNCHANGED <<queue, sent>>
  /\ UNCHANGED <<size, chan, lock, workers, wpc, cur, submitted, panicky,
                 rcvd, completed, takes, joins>>

\* lib.rs:57-60: head of the join loop and worker.thread.take()
Drop_Take ==
  /\ pc = "drop_take"
  /\ IF ForMore(k, workers)
       THEN IF workers[RosterIndex(workers, k)].thread = "Some"
              THEN /\ workers' = [workers EXCEPT ![RosterIndex(workers, k)].thread = "None"]
                   /\ takes' = Append(takes, workers[RosterIndex(workers, k)].id)
                   /\ pc' = "drop_join"
                   /\ k' = k
              ELSE /\ k' = k + 1
                   /\ UNCHANGED <<workers, takes, pc>>
       ELSE /\ pc' = "done"
            /\ UNCHANGED <<workers, takes, k>>
  /\ UNCHANGED <<size, chan, queue, lock, wpc, cur, submitted, panicky, sent,
                 rcvd, completed, joins>>

\* lib.rs:61: thread.join() blocks until the thread has ended and returns
\* Err when it ended by a panic; unwrap() then panics inside drop
Drop_Join ==
  /\ pc = "drop_join"
  /\ LET w == workers[RosterIndex(workers, k)].id IN
       /\ ThreadEnded(w)
       /\ IF wpc[w] = "dead"
            THEN /\ joins' = Append(joins, [id |-> w, result |-> "Err"])
                 /\ pc' = "panic_drop_join"
                 /\ k' = k
            ELSE /\ joins' = Append(joins, [id |-> w, result |-> "Ok"])
                 /\ pc' = "drop_take"
                 /\ k' = k + 1
  /\ UNCHANGED <<size, chan, queue, lock, workers, wpc, cur, submitted,
                 panicky, sent, rcvd, completed, takes>>

Next ==
  \/ New_Assert
  \/ New_Channel
  \/ New_Spawn
  \/ Execute
  \/ Drop_Begin
  \/ Drop_Send
  \/ Drop_Take
  \/ Drop_Join
  \/ \E w \in WorkerIds : Lock(w)
  \/ \E w \in WorkerIds : Recv(w)
  \/ \E w \in WorkerIds : JobReturns(w)
  \/ \E w \in WorkerIds : JobPanics(w)

Spec == Init /\ [][Next]_vars

TypeOK ==
  /\ size \in 0..MaxSize
  /\ k \in 0..(MaxSize + 1)
  /\ chan \in BOOLEAN
  /\ lock \in WorkerIds \cup {NoOne}
  /\ submitted \in 0..MaxTasks
  /\ panicky \subseteq 1..submitted
  /\ completed \subseteq 1..submitted
  /\ \A w \in WorkerIds : wpc[w] \in {"unspawned", "lock", "recv", "exec", "exited", "dead"}

\* fair scheduling of the threads: every worker thread that can take a step
\* eventually takes it, every job that does not panic returns, and the
\* caller, once inside drop, keeps running.  Nothing forces the caller to
\* submit or to drop the pool.
Fairness ==
  /\ WF_vars(Drop_Send)
  /\ WF_vars(Drop_Take)
  /\ WF_vars(Drop_Join)
  /\ \A w \in WorkerIds :
       WF_vars(Lock(w)) /\ WF_vars(Recv(w)) /\ WF_vars(JobReturns(w))

FairSpec == Spec /\ Fairness

\* ---------------- derived histories ----------------

\* the jobs in the order in which workers began to execute them
RECURSIVE JobsOf(_)
JobsOf(r) ==
  IF r = <<>> THEN <<>>
  ELSE IF Head(r).msg.tag = "NewJob"
         THEN <<Head(r).msg.job>> \o JobsOf(Tail(r))
         ELSE JobsOf(Tail(r))

Begun == JobsOf(rcvd)

\* number of times job j was handed to a worker
Runs(j) == Cardinality({i \in DOMAIN rcvd : rcvd[i].msg = NewJob(j)})

TerminatesSent == Cardinality({i \in DOMAIN sent : sent[i] = Terminate})
TimesTaken(w) == Cardinality({i \in DOMAIN takes : takes[i] = w})
TimesJoined(w) == Cardinality({i \in DOMAIN joins : joins[i].id = w})
Executing == {w \in WorkerIds : wpc[w] = "exec"}
Spawned == {w \in WorkerIds : wpc[w] # "unspawned"}

\* ---------------- claims ----------------

\* C1: once drop has completed, every job submitted through execute has
\* been executed exactly once: it was handed to a worker once, its closure
\* returned, and it is neither still queued nor still held by a worker.
C1_AllJobsRunExactlyOnce ==
  pc = "done" =>
    \A j \in 1..submitted :
      /\ Runs(j) = 1
      /\ j \in completed
      /\ \A i \in DOMAIN queue : queue[i] # NewJob(j)
      /\ \A w \in WorkerIds : cur[w] # j

C1_Witness ==
  pc = "done" /\ submitted = MaxTasks /\ completed = 1..MaxTasks

\* C2: when drop has returned, every spawned worker thread has left its
\* loop: none waits for the lock, is blocked in recv or executes a job.
C2_DoneOnlyAfterWorkersExited ==
  pc = "done" =>
    /\ Spawned = 0..(size - 1)
    /\ \A w \in Spawned : wpc[w] = "exited"
    /\ lock = NoOne

C2_Witness ==
  pc = "done" /\ size = MaxSize /\ \A w \in 0..(size - 1) : wpc[w] = "exited"

\* C3: under fair scheduling, when no submitted job panics (and every job
\* returns), a teardown that has begun completes, whatever the size and
\* the number of jobs (zero included), and every worker has been joined.
C3_TeardownCompletes ==
  (pc = "drop_send" /\ panicky = {})
    ~> (pc = "done" /\ \A w \in 0..(size - 1) : TimesJoined(w) = 1)

C3_Witness ==
  pc = "done" /\ submitted = 0 /\ Len(joins) = size /\ size > 0

\* C4: ThreadPool::new(0) panics at the assertion, before the channel is
\* created and before any worker is spawned, and never returns a pool.
C4_ZeroSizeFailsFirst ==
  size = 0 =>
    /\ pc \in {"new_assert", "panic_new"}
    /\ ~chan
    /\ workers = <<>>
    /\ Spawned = {}

C4_Witness ==
  size = 0 /\ pc = "panic_new"

\* C5: at most `size` jobs are executed at the same time, and a job that
\* is being executed is held by exactly one worker.
C5_BoundedConcurrency ==
  /\ Cardinality(Executing) <= size
  /\ \A w \in Executing : cur[w] \in 1..submitted
  /\ \A w1, w2 \in Executing : cur[w1] = cur[w2] => w1 = w2

C5_Witness ==
  size >= 2 /\ Cardinality(Executing) = size

C7_SingleWorkerFifo ==
  size = 1 =>
    /\ \A i \in DOMAIN Begun : Begun[i] = i
    /\ \A i \in DOMAIN Begun : i < Len(Begun) => Begun[i] \in completed

C7_Witness ==
  size = 1 /\ Len(Begun) = 3 /\ Begun[3] = 3

\* C8: before teardown begins a call of execute is always possible (it
\* never blocks) and it completes by appending NewJob to the queue.
C8_SubmitNeverBlocksAndAppends ==
  /\ [](pc = "live" /\ submitted < MaxTasks => ENABLED Execute)
  /\ [][(pc = "live" /\ submitted' = submitted + 1) =>
         (pc' = "live" /\ queue' = Append(queue, NewJob(submitted + 1)))]_vars

\* C9: when a job has panicked and killed its worker, the join of that
\* worker's handle in drop succeeds and drop completes normally.
C9_JoinOfDeadWorkerSucceeds ==
  /\ \A i \in DOMAIN joins :
       wpc[joins[i].id] = "dead" => joins[i].result = "Ok"
  /\ pc # "panic_drop_join"

\* C10: before teardown begins at least one worker is alive and holds the
\* receiving end, so that no send of execute or of drop ever fails.
C10_ReceiverNeverGone ==
  /\ pc = "live" => \E w \in WorkerIds : Alive(w)
  /\ pc \notin {"panic_execute", "panic_drop_send"}

\* ---------------- more derived histories ----------------

\* the messages received, in order, whoever received them
RcvdMsgs == [i \in DOMAIN rcvd |-> rcvd[i].msg]

\* positions in rcvd at which worker w received a Terminate
TermsConsumedBy(w) ==
  {i \in DOMAIN rcvd : rcvd[i].w = w /\ rcvd[i].msg = Terminate}

TermsConsumed == {i \in DOMAIN rcvd : rcvd[i].msg = Terminate}
TermsQueued == {i \in DOMAIN queue : queue[i] = Terminate}
Dead == {w \in WorkerIds : wpc[w] = "dead"}

C13_GlobalFifo ==
  /\ Len(rcvd) <= Len(sent)
  /\ \A i \in DOMAIN rcvd : rcvd[i].msg = sent[i]
  /\ RcvdMsgs \o queue = sent

C13_Witness ==
  /\ Len(rcvd) >= 3
  /\ \E i, j \in DOMAIN rcvd : rcvd[i].w # rcvd[j].w
  /\ \E i \in DOMAIN rcvd : rcvd[i].msg = Terminate
  /\ queue # <<>>

\* C14: when some worker has received a Terminate, every NewJob sent before
\* it (every NewJob sent: none follows a Terminate) has been received by
\* a worker and none waits in the queue.
C14_TerminateAfterJobsClaimed ==
  TermsConsumed # {} =>
    /\ \A i \in DOMAIN queue : queue[i].tag # "NewJob"
    /\ \A p \in DOMAIN sent :
         sent[p].tag = "NewJob" => \E i \in DOMAIN rcvd : rcvd[i].msg = sent[p]

C14_Witness ==
  /\ Cardinality(TermsConsumed) = 1
  /\ submitted = MaxTasks
  /\ Executing # {}
  /\ \E w \in WorkerIds : wpc[w] = "exited"

\* C12: the Mutex is held exactly by the worker that is inside recv(): at
\* most one worker at a time, and never by a worker that executes a job.
\* That two workers execute jobs at the same time is the witness.
C12_LockOnlyForDequeue ==
  /\ \A w \in WorkerIds : (lock = w) <=> (wpc[w] = "recv")
  /\ Cardinality({w \in WorkerIds : wpc[w] = "recv"}) <= 1
  /\ \A w \in Executing : lock # w

C12_Witness ==
  /\ wpc[0] = "exec" /\ wpc[1] = "exec"
  /\ cur[0] # cur[1]
  /\ lock = NoOne

\* C15: a worker that executes a job leaves that step only when the job
\* returns or panics; while it executes it receives nothing and keeps its
\* job; a worker becomes exited only by receiving a Terminate in recv().
C15_NoPreemption ==
  [][\A w \in WorkerIds :
       /\ wpc[w] = "exec" =>
            /\ wpc'[w] \in {"exec", "lock", "dead"}
            /\ wpc'[w] = "exec" => cur'[w] = cur[w]
            /\ wpc'[w] = "lock" => cur[w] \in completed'
            /\ wpc'[w] = "dead" => cur[w] \in panicky
            /\ TermsConsumedBy(w)' = TermsConsumedBy(w)
       /\ (wpc'[w] = "exited" /\ wpc[w] # "exited") =>
            /\ wpc[w] = "recv"
            /\ rcvd' = Append(rcvd, [w |-> w, msg |-> Terminate])]_vars

C15_Witness ==
  /\ pc \in {"drop_send", "drop_take", "drop_join"}
  /\ TermsQueued # {}
  /\ \E w \in WorkerIds : wpc[w] = "exec" /\ cur[w] \notin panicky

\* C16: no handle is taken before all `size` Terminates are sent; handles
\* are taken and joined one at a time in roster order 0, 1, ..; a join has
\* returned only for a thread that has ended, whichever Terminate that
\* thread consumed.
C16_TwoPhasesInRosterOrder ==
  /\ (takes # <<>> \/ pc \in {"drop_take", "drop_join", "done", "panic_drop_join"})
       => TerminatesSent = size
  /\ \A i \in DOMAIN takes : takes[i] = i - 1
  /\ \A i \in DOMAIN joins : joins[i].id = i - 1 /\ ThreadEnded(joins[i].id)
  /\ Len(joins) <= Len(takes)
  /\ Len(takes) <= Len(joins) + 1

C16_Witness ==
  /\ Len(joins) = 2
  /\ \E i, j \in DOMAIN rcvd :
       /\ i < j
       /\ rcvd[i] = [w |-> 1, msg |-> Terminate]
       /\ rcvd[j] = [w |-> 0, msg |-> Terminate]

\* C17: a panicking job ends the worker that executed it and nothing else:
\* the step changes no other worker, not the roster, the queue or the
\* lock; the dead worker stays dead, has consumed no Terminate and holds
\* no lock; the workers left execute at most size - (number dead) jobs.
C17_FaultKillsOnlyItsWorker ==
  /\ [][\A w \in WorkerIds :
          (wpc[w] = "exec" /\ cur[w] \in panicky /\ wpc'[w] # "exec") =>
            /\ wpc'[w] = "dead"
            /\ \A v \in WorkerIds \ {w} : wpc'[v] = wpc[v] /\ cur'[v] = cur[v]
            /\ UNCHANGED <<workers, queue, lock, rcvd, pc>>]_vars
  /\ [][\A w \in WorkerIds : wpc[w] = "dead" => wpc'[w] = "dead"]_vars
  /\ [](\A w \in Dead : TermsConsumedBy(w) = {} /\ lock # w)
  /\ [](Cardinality(Executing) + Cardinality(Dead) <= size)

C17_Witness ==
  /\ size = 2
  /\ Cardinality(Dead) = 1
  /\ \E v \in WorkerIds : wpc[v] = "exec" /\ cur[v] = 3
  /\ Len(workers) = 2

\* idle, live workers: waiting for the Mutex or blocked in recv()
Idle == {w \in WorkerIds : wpc[w] \in {"lock", "recv"}}

\* C18: the worker inside recv() holds the Mutex also while the queue is
\* empty, so at most one worker is inside recv() and the other idle
\* workers wait for the Mutex; and under fair scheduling, whenever the
\* queue is non-empty and some live worker is idle, one more message is
\* eventually received.
C18_BlockedReceiverKeepsLockAndProgress ==
  /\ [](\A w \in WorkerIds : wpc[w] = "recv" => lock = w)
  /\ [](Cardinality({w \in WorkerIds : wpc[w] = "recv"}) <= 1)
  /\ \A n \in 0..(MaxTasks + MaxSize) :
       (queue # <<>> /\ Idle # {} /\ Len(rcvd) = n) ~> (Len(rcvd) > n)

C18_Witness ==
  /\ queue = <<>>
  /\ wpc[0] = "recv" /\ lock = 0
  /\ wpc[1] = "lock"
  /\ rcvd # <<>>

\* C19: the holder of the Mutex, if any, is a live worker inside recv();
\* a worker that has exited or died does not hold it.
C19_LockHolderIsLiveReceiver ==
  /\ lock # NoOne => (lock \in Spawned /\ Alive(lock) /\ wpc[lock] = "recv")
  /\ \A w \in WorkerIds : ThreadEnded(w) => lock # w

C19_Witness ==
  \E w, v \in WorkerIds :
    /\ wpc[w] = "dead"
    /\ wpc[v] = "recv" /\ lock = v
    /\ queue # <<>>

\* C20: no NewJob is sent after a Terminate: the messages sent are NewJobs,
\* in submission order, followed by at most `size` Terminates.
C20_JobsThenTerminates ==
  /\ \A i, j \in DOMAIN sent :
       (i < j /\ sent[i] = Terminate) => sent[j] = Terminate
  /\ \A i \in DOMAIN sent : sent[i].tag = "NewJob" => sent[i].job = i
  /\ TerminatesSent <= size
  /\ TerminatesSent > 0 => pc \notin {"live", "panic_execute"}

C20_Witness ==
  /\ Len(sent) = MaxTasks + 2
  /\ sent[MaxTasks].tag = "NewJob"
  /\ sent[MaxTasks + 1] = Terminate
  /\ sent[MaxTasks + 2] = Terminate
====
